---------------------------- MODULE Spec2Model ----------------------------
(***************************************************************************)
(* Model of prything/teaching_notes_1.py: compound, discount,              *)
(* rate_from_discount, discount_factor and coupon_bond_price.              *)
(*                                                                         *)
(* Numbers are exact: a float is a rational num/den ("fin"), e^(num/den)   *)
(* ("exp"), a finite real the model does not track ("real"), or one of the *)
(* IEEE special values "inf", "ninf", "nan"; "complex" is the complex      *)
(* number Python's ** gives for a negative base and a fractional exponent. *)
(* Rounding, overflow and the sign of zero are not modelled.  The field np *)
(* tells a NumPy scalar from a Python scalar: Python raises                *)
(* ZeroDivisionError where NumPy returns a special value.  An exception is *)
(* a value of kind "ZeroDivisionError" or "IndexError" that every later    *)
(* operation of the call propagates.  The yield curve is an ndarray, as    *)
(* the docstrings say, and n, T, t are integers.                           *)
(***************************************************************************)
EXTENDS Integers, Sequences, FiniteSets, TLC

\* ------------------------------------------------------------------ bounds
MaxN == 2        \* frequencies n and freq range over 0..MaxN
MaxT == 2        \* horizons -1..MaxT
MaxLen == 3      \* maturity sequences of length 0..MaxLen

\* ------------------------------------------------------- exact arithmetic
Abs(x) == IF x < 0 THEN -x ELSE x

RECURSIVE GCD(_, _)
GCD(a, b) == IF b = 0 THEN a ELSE GCD(b, a % b)

RECURSIVE IPow(_, _)
IPow(x, e) == IF e = 0 THEN 1 ELSE x * IPow(x, e - 1)

RECURSIVE RootFrom(_, _, _)
RootFrom(m, q, x) ==
    IF IPow(x, q) >= m THEN (IF IPow(x, q) = m THEN x ELSE -1)
    ELSE RootFrom(m, q, x + 1)

\* the q-th root of m >= 0 when it is an integer, else -1
IRoot(m, q) == IF q = 1 THEN m ELSE RootFrom(m, q, 0)

Val(kind, n, d, isnp) == [k |-> kind, num |-> n, den |-> d, np |-> isnp]

\* the rational n/d (d # 0) in lowest terms with a positive denominator
Fin(n, d, isnp) ==
    LET g == GCD(Abs(n), Abs(d))
        s == IF d < 0 THEN -1 ELSE 1
    IN  Val("fin", (s * n) \div g, (s * d) \div g, isnp)

\* (an/ad) * (bn/bd), reduced crosswise before it is multiplied out
FinMul(an, ad, bn, bd, isnp) ==
    LET g == GCD(Abs(an), Abs(bd))
        h == GCD(Abs(bn), Abs(ad))
    IN  IF an = 0 \/ bn = 0 THEN Fin(0, 1, isnp)
        ELSE Fin((an \div g) * (bn \div h), (ad \div h) * (bd \div g), isnp)

PyInt(x) == Fin(x, 1, FALSE)
NpInt(x) == Fin(x, 1, TRUE)
Special(kind, isnp) == Val(kind, 0, 1, isnp)
Raise(kind) == Val(kind, 0, 1, FALSE)

\* e^(n/d); e^0 is 1
ExpVal(n, d, isnp) ==
    IF n = 0 THEN Fin(1, 1, isnp)
    ELSE LET f == Fin(n, d, isnp) IN Val("exp", f.num, f.den, isnp)

Errors == {"ZeroDivisionError", "IndexError"}
IsErr(v) == v.k \in Errors
IsZero(v) == v.k = "fin" /\ v.num = 0
\* a value whose sign the model knows
Signed(v) == v.k \in {"fin", "exp", "inf", "ninf"}
Sign(v) ==
    CASE v.k = "fin" -> (IF v.num > 0 THEN 1 ELSE IF v.num < 0 THEN -1 ELSE 0)
      [] v.k = "ninf" -> -1
      [] OTHER -> 1
\* equal as numbers, whatever the scalar type
Same(a, b) == a.k = b.k /\ a.num = b.num /\ a.den = b.den
Leq(a, b) == a.num * b.den <= b.num * a.den

\* -a
Neg(a) ==
    CASE IsErr(a) -> a
      [] a.k = "fin" -> Fin(-a.num, a.den, a.np)
      [] a.k = "inf" -> Special("ninf", a.np)
      [] a.k = "ninf" -> Special("inf", a.np)
      [] a.k = "nan" -> a
      [] a.k \in {"real", "complex"} -> a
      [] OTHER -> Special("unmodelled", a.np)

\* a + b
Add(a, b) ==
    LET isnp == a.np \/ b.np IN
    CASE IsErr(a) -> a
      [] IsErr(b) -> b
      [] "unmodelled" \in {a.k, b.k} -> Special("unmodelled", isnp)
      [] "complex" \in {a.k, b.k} -> Special("complex", isnp)
      [] "nan" \in {a.k, b.k} -> Special("nan", isnp)
      [] a.k = "fin" /\ b.k = "fin" ->
            LET l == (a.den \div GCD(a.den, b.den)) * b.den
            IN  Fin(a.num * (l \div a.den) + b.num * (l \div b.den), l, isnp)
      [] {a.k, b.k} = {"inf", "ninf"} -> Special("nan", isnp)
      [] "inf" \in {a.k, b.k} -> Special("inf", isnp)
      [] "ninf" \in {a.k, b.k} -> Special("ninf", isnp)
      [] IsZero(a) -> Val(b.k, b.num, b.den, isnp)
      [] IsZero(b) -> Val(a.k, a.num, a.den, isnp)
      [] OTHER -> Special("real", isnp)

\* a * b
Mul(a, b) ==
    LET isnp == a.np \/ b.np IN
    CASE IsErr(a) -> a
      [] IsErr(b) -> b
      [] "unmodelled" \in {a.k, b.k} -> Special("unmodelled", isnp)
      [] "complex" \in {a.k, b.k} -> Special("complex", isnp)
      [] "nan" \in {a.k, b.k} -> Special("nan", isnp)
      [] a.k = "fin" /\ b.k = "fin" -> FinMul(a.num, a.den, b.num, b.den, isnp)
      [] a.k \in {"inf", "ninf"} \/ b.k \in {"inf", "ninf"} ->
            IF IsZero(a) \/ IsZero(b) THEN Special("nan", isnp)
            ELSE IF ~(Signed(a) /\ Signed(b)) THEN Special("unmodelled", isnp)
            ELSE IF Sign(a) * Sign(b) > 0 THEN Special("inf", isnp)
            ELSE Special("ninf", isnp)
      [] IsZero(a) \/ IsZero(b) -> Fin(0, 1, isnp)
      [] a.k = "exp" /\ b.k = "exp" ->
            ExpVal(a.num * b.den + b.num * a.den, a.den * b.den, isnp)
      [] a.k = "exp" /\ b.k = "fin" /\ b.num = 1 /\ b.den = 1 ->
            Val("exp", a.num, a.den, isnp)
      [] b.k = "exp" /\ a.k = "fin" /\ a.num = 1 /\ a.den = 1 ->
            Val("exp", b.num, b.den, isnp)
      [] OTHER -> Special("real", isnp)

\* a / b (true division): a Python scalar divided by a Python zero raises,
\* a NumPy operand makes the quotient inf, -inf or nan
Div(a, b) ==
    LET isnp == a.np \/ b.np IN
    CASE IsErr(a) -> a
      [] IsErr(b) -> b
      [] IsZero(b) /\ ~isnp -> Raise("ZeroDivisionError")
      [] "unmodelled" \in {a.k, b.k} -> Special("unmodelled", isnp)
      [] "complex" \in {a.k, b.k} -> Special("complex", isnp)
      [] "nan" \in {a.k, b.k} -> Special("nan", isnp)
      [] IsZero(b) ->
            IF IsZero(a) THEN Special("nan", isnp)
            ELSE IF ~Signed(a) THEN Special("unmodelled", isnp)
            ELSE IF Sign(a) > 0 THEN Special("inf", isnp)
            ELSE Special("ninf", isnp)
      [] a.k = "fin" /\ b.k = "fin" -> FinMul(a.num, a.den, b.den, b.num, isnp)
      [] b.k \in {"inf", "ninf"} ->
            IF a.k \in {"inf", "ninf"} THEN Special("nan", isnp)
            ELSE Fin(0, 1, isnp)
      [] a.k \in {"inf", "ninf"} ->
            IF ~Signed(b) THEN Special("unmodelled", isnp)
            ELSE IF Sign(a) * Sign(b) > 0 THEN Special("inf", isnp)
            ELSE Special("ninf", isnp)
      [] IsZero(a) -> Fin(0, 1, isnp)
      [] b.k = "exp" -> Mul(a, Val("exp", -b.num, b.den, isnp))
      [] a.k = "exp" /\ b.k = "fin" /\ b.num = 1 /\ b.den = 1 ->
            Val("exp", a.num, a.den, isnp)
      [] OTHER -> Special("real", isnp)

\* b ** e, or np.power(b, e) when ufunc is TRUE; e is a rational
Pow(b, e, ufunc) ==
    LET isnp == ufunc \/ b.np \/ e.np
        p == Abs(e.num)
        rn == IRoot(IPow(Abs(b.num), p), e.den)
        rd == IRoot(IPow(b.den, p), e.den)
        odd == p % 2 = 1
    IN
    CASE IsErr(b) -> b
      [] IsErr(e) -> e
      [] e.k # "fin" \/ b.k \in {"unmodelled", "real"} -> Special("unmodelled", isnp)
      [] e.num = 0 -> Fin(1, 1, isnp)
      [] b.k \in {"nan", "complex"} -> Special(b.k, isnp)
      [] b.k = "exp" -> ExpVal(b.num * e.num, b.den * e.den, isnp)
      [] b.k = "inf" -> IF e.num > 0 THEN Special("inf", isnp) ELSE Fin(0, 1, isnp)
      [] b.k = "ninf" ->
            IF e.num < 0 THEN Fin(0, 1, isnp)
            ELSE IF e.den = 1 /\ odd THEN Special("ninf", isnp)
            ELSE Special("inf", isnp)
      [] b.num = 0 ->
            IF e.num > 0 THEN Fin(0, 1, isnp)
            ELSE IF isnp THEN Special("inf", isnp)
            ELSE Raise("ZeroDivisionError")
      [] e.den = 1 ->
            IF e.num > 0 THEN Fin(IPow(b.num, p), IPow(b.den, p), isnp)
            ELSE Fin(IPow(b.den, p), IPow(b.num, p), isnp)
      [] b.num < 0 -> IF isnp THEN Special("nan", isnp) ELSE Special("complex", isnp)
      [] rn < 0 \/ rd < 0 -> Special("real", isnp)
      [] OTHER -> IF e.num > 0 THEN Fin(rn, rd, isnp) ELSE Fin(rd, rn, isnp)

\* np.exp(x)
Exp(x) ==
    CASE IsErr(x) -> x
      [] x.k = "fin" -> ExpVal(x.num, x.den, TRUE)
      [] x.k = "inf" -> Special("inf", TRUE)
      [] x.k = "ninf" -> Fin(0, 1, TRUE)
      [] x.k = "nan" -> Special("nan", TRUE)
      [] OTHER -> Special("unmodelled", TRUE)


\* np.log with the logarithm of zero taken for nan, as if zero were outside
\* the domain like the negative numbers
LogZeroIsNan(z) ==
    CASE IsErr(z) -> z
      [] z.k = "fin" ->
            IF z.num <= 0 THEN Special("nan", TRUE)
            ELSE IF z.num = z.den THEN Fin(0, 1, TRUE)
            ELSE Special("real", TRUE)
      [] z.k = "exp" -> Fin(z.num, z.den, TRUE)
      [] z.k = "inf" -> Special("inf", TRUE)
      [] z.k \in {"ninf", "nan"} -> Special("nan", TRUE)
      [] OTHER -> Special("unmodelled", TRUE)

\* np.log(z): log(0) is -inf and the log of a negative number is nan
Log(z) ==
    CASE IsErr(z) -> z
      [] z.k = "fin" ->
            IF z.num < 0 THEN Special("nan", TRUE)
            ELSE IF z.num = 0 THEN Special("ninf", TRUE)
            ELSE IF z.num = z.den THEN Fin(0, 1, TRUE)
            ELSE Special("real", TRUE)
      [] z.k = "exp" -> Fin(z.num, z.den, TRUE)
      [] z.k = "inf" -> Special("inf", TRUE)
      [] z.k \in {"ninf", "nan"} -> Special("nan", TRUE)
      [] OTHER -> Special("unmodelled", TRUE)



\* compound dividing by n before it looks at n_infinity
compoundReadsN(r, n, T, n_infinity) ==
    LET per == Div(r, n) IN
    IF IsErr(per) THEN per
    ELSE IF n_infinity THEN Exp(Mul(r, T))
    ELSE Pow(Add(PyInt(1), per), Mul(n, T), TRUE)

\* compound dividing with np.divide, which never raises
compoundNpDivide(r, n, T, n_infinity) ==
    IF n_infinity THEN Exp(Mul(r, T))
    ELSE Pow(Add(PyInt(1), Div(Val(r.k, r.num, r.den, TRUE), n)), Mul(n, T), TRUE)

\* ------------------------------------------------------------ the functions
\* compound(r, n, T, n_infinity)
compound(r, n, T, n_infinity) ==
    IF n_infinity THEN Exp(Mul(r, T))
    ELSE Pow(Add(PyInt(1), Div(r, n)), Mul(n, T), TRUE)


\* discount without the minus sign of its continuous branch
discountNoMinus(r, n, T, n_infinity) ==
    IF n_infinity THEN Exp(Mul(r, T))
    ELSE Div(PyInt(1), Pow(Add(PyInt(1), Div(r, n)), Mul(n, T), FALSE))

\* discount(r, n, T, n_infinity)
discount(r, n, T, n_infinity) ==
    IF n_infinity THEN Exp(Mul(Neg(r), T))
    ELSE Div(PyInt(1), Pow(Add(PyInt(1), Div(r, n)), Mul(n, T), FALSE))


\* rate_from_discount taking the T-th root instead of the (n*T)-th
rateFromDiscountRootT(n, Z_T, T, n_infinity) ==
    IF n_infinity THEN Mul(Div(PyInt(-1), T), Log(Z_T))
    ELSE Mul(n, Add(Div(PyInt(1), Pow(Z_T, Div(PyInt(1), T), FALSE)),
                    PyInt(-1)))

\* rate_from_discount(n, Z_T, T, n_infinity)
rate_from_discount(n, Z_T, T, n_infinity) ==
    IF n_infinity THEN Mul(Div(PyInt(-1), T), Log(Z_T))
    ELSE Mul(n, Add(Div(PyInt(1), Pow(Z_T, Div(PyInt(1), Mul(n, T)), FALSE)),
                    PyInt(-1)))


\* an index rule that rejects negative indices
NpIndexNoWrap(len, idx) == IF 0 <= idx /\ idx < len THEN idx + 1 ELSE 0

\* NumPy's index rule for an axis of length len: -len..len-1 are valid and a
\* negative index counts from the end; the result is the 1-based position, or
\* 0 when the index is out of bounds
NpIndex(len, idx) ==
    IF 0 <= idx /\ idx < len THEN idx + 1
    ELSE IF -len <= idx /\ idx < 0 THEN idx + len + 1
    ELSE 0

\* arr[idx] of a one-dimensional array
Index1(arr, idx) ==
    IF NpIndex(Len(arr), idx) = 0 THEN Raise("IndexError")
    ELSE NpInt(arr[NpIndex(Len(arr), idx)])

\* arr[row, col] of a two-dimensional array
Index2(arr, row, col) ==
    IF NpIndex(Len(arr), row) = 0 THEN Raise("IndexError")
    ELSE IF NpIndex(Len(arr[1]), col) = 0 THEN Raise("IndexError")
    ELSE arr[NpIndex(Len(arr), row)][NpIndex(Len(arr[1]), col)]

\* discount_factor(r, t, T)
discount_factor(r, t, T) == Exp(Mul(Neg(Index2(r, t, T)), PyInt(T - t)))

\* the default of coupon_bond_price's freq
DefaultFreq == 2
\* the default of coupon_bond_price's principal
DefaultPrincipal == 100

\* one coupon's term of coupon_bond_price: (c / freq) / discount(r[t, T[i]],
\* freq, T[i] - t, n_infinity=False); T[i] is an np.int64 here
CashFlow(amount, r, t, T, idx, freq) ==
    LET Ti == Index1(T, idx) IN
    IF IsErr(amount) THEN amount
    ELSE IF IsErr(Ti) THEN Ti
    ELSE Div(amount, discount(Index2(r, t, Ti.num), freq,
                              Add(Ti, PyInt(-t)), FALSE))

\* the term the coupon loop adds at index idx
CouponTerm(r, t, T, idx, c, freq) == CashFlow(Div(c, freq), r, t, T, idx, freq)


\* the principal term reading the last maturity, T[n - 1]
PrincipalTermLast(r, t, T, freq, principal) ==
    CashFlow(principal, r, t, T, Len(T) - 1, freq)

\* the principal term, which reads T[n]
PrincipalTerm(r, t, T, freq, principal) ==
    CashFlow(principal, r, t, T, Len(T), freq)


\* ------------------------------------------------------------------ inputs
\* rates, as Python floats and as NumPy scalars
RateFracs == {<<-3, 1>>, <<-1, 1>>, <<-1, 2>>, <<0, 1>>, <<1, 2>>, <<1, 1>>}
Rates == {Fin(q[1], q[2], isnp) : q \in RateFracs, isnp \in BOOLEAN}
Freqs == 0..MaxN
Horizons == -1..MaxT
\* discount factors passed as literals
ZLiterals ==
    {Fin(q[1], q[2], isnp) :
        q \in {<<-1, 1>>, <<0, 1>>, <<1, 2>>, <<1, 1>>, <<4, 1>>}, isnp \in BOOLEAN}
    \cup {Special("inf", TRUE), Special("nan", TRUE)}

\* the array of __main__ and two more yield curves
MainCurve == <<<<NpInt(1), NpInt(2), NpInt(3), NpInt(4), NpInt(5)>>,
               <<NpInt(1), NpInt(2), NpInt(3), NpInt(4), NpInt(5)>>>>
FlatCurve == <<<<NpInt(0), NpInt(0), NpInt(0)>>, <<NpInt(0), NpInt(0), NpInt(0)>>,
               <<NpInt(0), NpInt(0), NpInt(0)>>>>
FloatCurve == <<<<Fin(1, 2, TRUE), Fin(0, 1, TRUE), Fin(1, 1, TRUE), Fin(-1, 2, TRUE)>>,
                <<Fin(1, 1, TRUE), Fin(1, 2, TRUE), Fin(2, 1, TRUE), Fin(0, 1, TRUE)>>>>
Curves == {MainCurve, FlatCurve, FloatCurve}
MatVals == {-1, 2, 5}
Maturities == UNION {[1..len -> MatVals] : len \in 0..MaxLen}
Dates == -3..2
MaturityDates == -6..5
Coupons == {PyInt(0), Fin(3, 100, FALSE), PyInt(1)}
\* the freq argument when the caller gives one, its default when omitted
FreqArgs(given) == IF given THEN Freqs ELSE {DefaultFreq}
PrincipalArgs == {DefaultPrincipal, 50}

\* ------------------------------------------------------------------- state
VARIABLES
    r_curve,      \* the yield curve array the caller holds
    T_mats,       \* the maturity array the caller holds
    pc,           \* "idle", "coupon_loop" (inside coupon_bond_price), "returned"
    call,         \* the call in progress or just finished
    ret,          \* what the call returned or raised
    i,            \* coupon_bond_price's loop index
    coupon_pmt,   \* coupon_bond_price's running total
    reads         \* the indices at which the running call has read T

vars == <<r_curve, T_mats, pc, call, ret, i, coupon_pmt, reads>>

NoVal == Special("none", FALSE)
NoCall == [fn |-> "none", r |-> NoVal, n |-> NoVal, T |-> NoVal, n_infinity |-> FALSE,
           Z_T |-> NoVal, t |-> 0, mat |-> 0, c |-> NoVal, freq |-> NoVal,
           principal |-> NoVal, freq_given |-> FALSE]

Init ==
    /\ r_curve \in Curves
    /\ T_mats \in Maturities
    /\ pc = "idle"
    /\ call = NoCall
    /\ ret = NoVal
    /\ i = 0
    /\ coupon_pmt = NoVal
    /\ reads = <<>>

\* what every call of a scalar function leaves alone
ScalarFrame == UNCHANGED <<r_curve, T_mats, i, coupon_pmt, reads>>

\* a call of compound: it runs to its return or its error
CallCompound ==
    /\ pc = "idle"
    /\ \E r \in Rates, n \in Freqs, T \in Horizons, n_infinity \in BOOLEAN :
        /\ call' = [NoCall EXCEPT !.fn = "compound", !.r = r, !.n = PyInt(n),
                                  !.T = PyInt(T), !.n_infinity = n_infinity]
        /\ ret' = compound(r, PyInt(n), PyInt(T), n_infinity)
    /\ pc' = "returned"
    /\ ScalarFrame

CallDiscount ==
    /\ pc = "idle"
    /\ \E r \in Rates, n \in Freqs, T \in Horizons, n_infinity \in BOOLEAN :
        /\ call' = [NoCall EXCEPT !.fn = "discount", !.r = r, !.n = PyInt(n),
                                  !.T = PyInt(T), !.n_infinity = n_infinity]
        /\ ret' = discount(r, PyInt(n), PyInt(T), n_infinity)
    /\ pc' = "returned"
    /\ ScalarFrame

\* the discount factors of the rates under n, T and n_infinity
DiscountsOf(n, T, n_infinity) ==
    {z \in {discount(r, PyInt(n), PyInt(T), n_infinity) : r \in Rates} : ~IsErr(z)}

\* Z_T is a literal or the discount factor of a rate under the same n, T and
\* n_infinity
CallRateFromDiscount ==
    /\ pc = "idle"
    /\ \E n \in Freqs, T \in Horizons, n_infinity \in BOOLEAN :
        \E Z_T \in ZLiterals \cup DiscountsOf(n, T, n_infinity) :
            /\ call' = [NoCall EXCEPT !.fn = "rate_from_discount", !.n = PyInt(n),
                                      !.Z_T = Z_T, !.T = PyInt(T),
                                      !.n_infinity = n_infinity]
            /\ ret' = rate_from_discount(PyInt(n), Z_T, PyInt(T), n_infinity)
    /\ pc' = "returned"
    /\ ScalarFrame

CallDiscountFactor ==
    /\ pc = "idle"
    /\ \E t \in Dates, T \in MaturityDates :
        /\ call' = [NoCall EXCEPT !.fn = "discount_factor", !.t = t, !.mat = T]
        /\ ret' = discount_factor(r_curve, t, T)
    /\ pc' = "returned"
    /\ ScalarFrame


\* coupon_bond_price with a loop that starts at index 0
CallCouponBondPriceFromZero ==
    /\ pc = "idle"
    /\ \E t \in Dates, c \in Coupons, freq_given \in BOOLEAN, principal \in PrincipalArgs :
      \E freq \in FreqArgs(freq_given) :
        /\ call' = [NoCall EXCEPT
                        !.fn = "coupon_bond_price", !.t = t, !.c = c,
                        !.freq = PyInt(freq), !.freq_given = freq_given,
                        !.principal = PyInt(principal)]
        /\ coupon_pmt' = PyInt(0)
        /\ i' = 0
        /\ reads' = <<>>
        /\ ret' = NoVal
        /\ pc' = "coupon_loop"
        /\ UNCHANGED <<r_curve, T_mats>>

\* coupon_bond_price(r, t, T, c, freq=2, principal=100) up to the loop
CallCouponBondPrice ==
    /\ pc = "idle"
    /\ \E t \in Dates, c \in Coupons, freq_given \in BOOLEAN, principal \in PrincipalArgs :
      \E freq \in FreqArgs(freq_given) :
        /\ call' = [NoCall EXCEPT
                        !.fn = "coupon_bond_price", !.t = t, !.c = c,
                        !.freq = PyInt(freq), !.freq_given = freq_given,
                        !.principal = PyInt(principal)]
        /\ coupon_pmt' = PyInt(0)
        /\ i' = 1
        /\ reads' = <<>>
        /\ ret' = NoVal
        /\ pc' = "coupon_loop"
        /\ UNCHANGED <<r_curve, T_mats>>


\* a loop that consumes the maturity array as it goes
CouponIterationPops ==
    /\ pc = "coupon_loop"
    /\ i < Len(T_mats)
    /\ LET term == CouponTerm(r_curve, call.t, T_mats, i, call.c, call.freq) IN
       IF IsErr(term)
       THEN /\ ret' = term
            /\ pc' = "returned"
            /\ UNCHANGED <<i, coupon_pmt>>
       ELSE /\ coupon_pmt' = Add(coupon_pmt, term)
            /\ i' = i + 1
            /\ UNCHANGED <<ret, pc>>
    /\ reads' = IF IsErr(Div(call.c, call.freq)) THEN reads ELSE Append(reads, i)
    /\ T_mats' = SubSeq(T_mats, 1, Len(T_mats) - 1)
    /\ UNCHANGED <<r_curve, call>>

\* one iteration of "for i in range(1, n)"
CouponIteration ==
    /\ pc = "coupon_loop"
    /\ i < Len(T_mats)
    /\ LET term == CouponTerm(r_curve, call.t, T_mats, i, call.c, call.freq) IN
       IF IsErr(term)
       THEN /\ ret' = term
            /\ pc' = "returned"
            /\ UNCHANGED <<i, coupon_pmt>>
       ELSE /\ coupon_pmt' = Add(coupon_pmt, term)
            /\ i' = i + 1
            /\ UNCHANGED <<ret, pc>>
    /\ reads' = IF IsErr(Div(call.c, call.freq)) THEN reads ELSE Append(reads, i)
    /\ UNCHANGED <<r_curve, T_mats, call>>

\* the principal payment and the return
PrincipalPayment ==
    /\ pc = "coupon_loop"
    /\ i >= Len(T_mats)
    /\ reads' = Append(reads, Len(T_mats))
    /\ LET principal_pmt == PrincipalTerm(r_curve, call.t, T_mats, call.freq,
                                          call.principal)
       IN  ret' = Add(coupon_pmt, principal_pmt)
    /\ pc' = "returned"
    /\ UNCHANGED <<r_curve, T_mats, call, i, coupon_pmt>>

\* the caller drops the result; the call's locals are gone
Return ==
    /\ pc = "returned"
    /\ pc' = "idle"
    /\ call' = NoCall
    /\ ret' = NoVal
    /\ i' = 0
    /\ coupon_pmt' = NoVal
    /\ reads' = <<>>
    /\ UNCHANGED <<r_curve, T_mats>>

\* the calls of the two functions that take the arrays
Next ==
    \/ CallDiscountFactor
    \/ CallCouponBondPrice
    \/ CouponIteration
    \/ PrincipalPayment
    \/ Return

Spec == Init /\ [][Next]_vars

\* the maturity array of __main__
MainMaturities == <<1, 2, 3, 4, 5>>

\* the arrays as __main__ builds them, no call made
FormulaInit ==
    /\ r_curve = MainCurve
    /\ T_mats = MainMaturities
    /\ pc = "idle"
    /\ call = NoCall
    /\ ret = NoVal
    /\ i = 0
    /\ coupon_pmt = NoVal
    /\ reads = <<>>

\* the calls of the three scalar formulas
FormulaNext ==
    \/ CallCompound
    \/ CallDiscount
    \/ CallRateFromDiscount
    \/ Return

FormulaSpec == FormulaInit /\ [][FormulaNext]_vars

\* every value the model computes is one it tracks
Modelled == ret.k # "unmodelled" /\ coupon_pmt.k # "unmodelled"


\* ------------------------------------------------------------------ claims
One == PyInt(1)
Returned(fn) == pc = "returned" /\ call.fn = fn
\* 1 + r/n of the finished call
Base == Add(One, Div(call.r, call.n))

\* C1: for n > 0 and 1 + r/n # 0, in the continuous and in the discrete
\* regime, the discount factor a call of discount returns, multiplied by
\* compound of the same arguments, is 1.
DiscountInvertsCompound ==
    (Returned("discount") /\ call.n.num > 0 /\ ~IsZero(Base))
        => Same(Mul(ret, compound(call.r, call.n, call.T, call.n_infinity)), One)

DiscountInvertsCompoundWitness ==
    /\ Returned("discount") /\ ~call.n_infinity
    /\ call.n.num > 1 /\ call.T.num > 0 /\ ~IsZero(Base)
    /\ ret.k = "fin" /\ ret.num # ret.den

\* C2: for n > 0, T > 0 and every rate r with 1 + r/n > 0, a call of
\* rate_from_discount whose Z_T is discount(r, n, T, n_infinity), under the
\* same n, T and n_infinity, returns r.
RoundTrip ==
    (Returned("rate_from_discount") /\ call.n.num > 0 /\ call.T.num > 0)
        => \A r \in Rates :
              (/\ Sign(Add(One, Div(r, call.n))) > 0
               /\ Same(call.Z_T, discount(r, call.n, call.T, call.n_infinity)))
              => Same(ret, r)

RoundTripWitness ==
    /\ Returned("rate_from_discount") /\ ~call.n_infinity
    /\ call.n.num > 1 /\ call.T.num > 1
    /\ \E r \in Rates :
          /\ r.num # 0 /\ Sign(Add(One, Div(r, call.n))) > 0
          /\ Same(call.Z_T, discount(r, call.n, call.T, FALSE))
          /\ Same(ret, r)

CurRate == Index2(r_curve, call.t, T_mats[i + 1])
CurHorizon == PyInt(T_mats[i + 1] - call.t)
Coupon == Div(call.c, call.freq)

\* C4: each coupon is added at its discounted value: with a rate >= 0,
\* freq > 0 and T[i] - t >= 0 an iteration adds (c/freq) * discount(r[t, T[i]],
\* freq, T[i] - t, n_infinity=False), which is at most c/freq.
CouponsAreDiscounted ==
    [][(/\ pc = "coupon_loop" /\ pc' = "coupon_loop" /\ i' = i + 1
        /\ ~IsErr(CurRate) /\ CurRate.num >= 0
        /\ call.freq.num > 0 /\ CurHorizon.num >= 0)
       => /\ Same(coupon_pmt',
                  Add(coupon_pmt, Mul(Coupon, discount(CurRate, call.freq,
                                                       CurHorizon, FALSE))))
          /\ Leq(Add(coupon_pmt', Neg(coupon_pmt)), Coupon)]_vars

\* C5: with n_infinity true compound is e^(r*T) and discount is e^(-r*T)
\* whatever the frequency n, n = 0 included: no division by n happens.
ContinuousIgnoresN ==
    /\ (Returned("compound") /\ call.n_infinity)
          => Same(ret, ExpVal(call.r.num * call.T.num, call.r.den, TRUE))
    /\ (Returned("discount") /\ call.n_infinity)
          => Same(ret, ExpVal(-call.r.num * call.T.num, call.r.den, TRUE))

ContinuousIgnoresNWitness ==
    /\ Returned("compound") /\ call.n_infinity /\ call.n.num = 0
    /\ ~call.r.np /\ ret.k = "exp"

\* the shape of the curve and the indices of the finished discount_factor call
Rows == Len(r_curve)
Cols == Len(r_curve[1])
InRange == call.t \in 0..(Rows - 1) /\ call.mat \in 0..(Cols - 1)
InNumpyRange == call.t \in (-Rows)..(Rows - 1) /\ call.mat \in (-Cols)..(Cols - 1)
\* e^(-entry * (T - t))
FactorOf(entry) == ExpVal(-entry.num * (call.mat - call.t), entry.den, TRUE)

\* C6 as stated: discount_factor returns e^(-curve[t, T] * (T - t)) for t in
\* 0..rows-1 and T in 0..cols-1, and fails with an out-of-bounds error for
\* every other pair, the negative indices included.
DiscountFactorRejectsNegative ==
    Returned("discount_factor")
        => IF InRange
           THEN Same(ret, FactorOf(r_curve[call.t + 1][call.mat + 1]))
           ELSE ret.k = "IndexError"

\* C6 amended: discount_factor fails with an out-of-bounds error exactly when
\* t is outside -rows..rows-1 or T is outside -cols..cols-1; a negative index
\* in that range counts from the end of its axis, and the call returns
\* e^(-entry * (T - t)) of the entry it selects, T - t taken from the indices
\* as passed.
DiscountFactorBounds ==
    Returned("discount_factor")
        => IF InNumpyRange
           THEN Same(ret, FactorOf(r_curve[((call.t + Rows) % Rows) + 1]
                                          [((call.mat + Cols) % Cols) + 1]))
           ELSE ret.k = "IndexError"

DiscountFactorBoundsWitness ==
    /\ Returned("discount_factor")
    /\ call.t < 0 /\ call.mat < 0 /\ ret.k = "exp"

\* a finished discrete call of compound or discount with frequency 0
ZeroFrequency ==
    /\ pc = "returned" /\ call.fn \in {"compound", "discount"}
    /\ ~call.n_infinity /\ call.n.num = 0

\* C7 as stated: with n = 0 and n_infinity false, compound and discount raise
\* nothing and return infinity or NaN.
ZeroFrequencyGivesSpecialValue ==
    ZeroFrequency => ret.k \in {"inf", "ninf", "nan"}

\* C7 amended: with n = 0 and n_infinity false, compound and discount raise
\* ZeroDivisionError when r is a Python number; when r is a NumPy scalar, r/n
\* is inf, -inf or nan, nothing is raised, and the call returns 1, the power
\* of exponent n*T = 0.
ZeroFrequencyOutcome ==
    ZeroFrequency => IF call.r.np THEN Same(ret, One)
                     ELSE ret.k = "ZeroDivisionError"

ZeroFrequencyOutcomeWitness ==
    /\ ZeroFrequency /\ call.fn = "compound"
    /\ ~call.r.np /\ ret.k = "ZeroDivisionError"

\* a finished continuous call of rate_from_discount with T # 0 and Z_T <= 0
NonPositiveFactor ==
    /\ Returned("rate_from_discount") /\ call.n_infinity
    /\ call.T.num # 0 /\ call.Z_T.k = "fin" /\ call.Z_T.num <= 0

\* C8 as stated: for T # 0 and Z_T <= 0 the continuous rate_from_discount
\* gives NaN or an error, never a finite and never an infinite rate.
NonPositiveFactorFails ==
    NonPositiveFactor => (ret.k = "nan" \/ IsErr(ret))

\* C8 amended: for T # 0 the continuous rate_from_discount gives NaN when
\* Z_T < 0; for Z_T = 0 it gives an infinite rate, +infinity when T > 0 and
\* -infinity when T < 0.
NonPositiveFactorOutcome ==
    NonPositiveFactor
        => ret.k = (IF call.Z_T.num < 0 THEN "nan"
                    ELSE IF call.T.num > 0 THEN "inf" ELSE "ninf")

NonPositiveFactorOutcomeWitness ==
    /\ NonPositiveFactor /\ call.Z_T.num = 0 /\ call.T.num > 0 /\ ret.k = "inf"

\* C9: no call changes the yield curve array or the maturity array it is
\* passed, the calls that end in an error included.
ArraysUnchanged == [][r_curve' = r_curve /\ T_mats' = T_mats]_vars

\* a call that went round the loop and then ended in an error
ArraysUnchangedWitness ==
    /\ Returned("coupon_bond_price") /\ IsErr(ret)
    /\ Len(reads) >= 2 /\ coupon_pmt.k = "fin" /\ coupon_pmt.num # 0

\* the sum of (c/freq) / discount(r[t, T[j]], freq, T[j] - t, False) over
\* j = 1..last
RECURSIVE SumOfCoupons(_)
SumOfCoupons(last) ==
    IF last <= 0 THEN PyInt(0)
    ELSE Add(SumOfCoupons(last - 1),
             Div(Coupon, discount(Index2(r_curve, call.t, T_mats[last + 1]),
                                  call.freq, PyInt(T_mats[last + 1] - call.t),
                                  FALSE)))

AtPrincipalStep == pc = "coupon_loop" /\ i >= Len(T_mats)

=============================================================================
